---- MODULE Spec2Model ----
(***************************************************************************)
(* CacheManager (src/unnamed/part_003, lines 608-1095): an in-process      *)
(* key-value cache with TTL expiry, LRU eviction by entry count and        *)
(* eviction by memory budget.  Time is in milliseconds (Date.now()).       *)
(* A JS Map is a sequence of [key, val] records in insertion order.        *)
(***************************************************************************)
EXTENDS Integers, Sequences, FiniteSets, TLC

VARIABLES
    cfg,          \* maxSize, maxMemory, defaultTTL fixed by the constructor
    now,          \* Date.now()
    cache,        \* this.cache       : Map key -> entry
    accessOrder,  \* this.accessOrder : Map key -> last access time
    timers,       \* this.timers      : Map key -> timer handle
    scheduled,    \* timers pending in the runtime (setTimeout not yet fired or cleared)
    stats,        \* this.stats
    inflight,     \* getOrSet calls suspended in `await asyncFunction()`
    useOrder,     \* history: stored keys, least recently set/read first
    call          \* the last call of a function that reads no field, with its outcome

vars == <<cfg, now, cache, accessOrder, timers, scheduled, stats, inflight, useOrder,
          call>>

----------------------------------------------------------------------------
(* Bounds of the model *)

MaxTime == 3
MaxOps == 4
MaxStrLen == 2

(* Program constants *)

DefaultMaxSize == 1000
DefaultMaxMemory == 52428800
DefaultTTL == 3600000
MetadataOverhead == 200
FallbackSize == 1024
PrimitiveSize == 64

----------------------------------------------------------------------------
(* JS values.  A value is [type, len]: typeof-level kind and, for a string, *)
(* its byte length.  "cyclic" is an object JSON.stringify throws on.        *)

JsNull == [type |-> "null", len |-> 0]
JsTrue == [type |-> "boolean", len |-> 1]
JsFalse == [type |-> "boolean", len |-> 0]
JsUndefined == [type |-> "undefined", len |-> 0]

Str199 == [type |-> "string", len |-> 199]
Num == [type |-> "number", len |-> 0]
Cyclic == [type |-> "cyclic", len |-> 0]

Keys == {"", "a", "b"}
GetOrSetKeys == {"a"}
Values == {Str199, Cyclic}
\* ttl argument of set: 0 stands for the omitted/null argument
TTLArgs == {0, 1}
\* preload and getOrSet are called without their ttl argument
OmittedTTL == {0}
NoExpiry == 0

\* constructor options; 0 stands for an option that is not given
Options ==
    { [maxSize |-> 2, maxMemory |-> 1000, defaultTTL |-> 2],
      [maxSize |-> 2, maxMemory |-> 1300, defaultTTL |-> -1] }

\* options at the edge of the documented ranges: defaultTTL: 0 ("entries never
\* expire"), and a bound that is not positive
EdgeOptions ==
    { [maxSize |-> 2, maxMemory |-> 1000, defaultTTL |-> 0],
      [maxSize |-> -1, maxMemory |-> 1000, defaultTTL |-> 2],
      [maxSize |-> 2, maxMemory |-> -1, defaultTTL |-> 2] }

----------------------------------------------------------------------------
(* Map operations *)

MapHas(m, k) == \E i \in 1..Len(m) : m[i].key = k
MapIdx(m, k) == CHOOSE i \in 1..Len(m) : m[i].key = k
MapGet(m, k) == m[MapIdx(m, k)].val
MapSet(m, k, v) ==
    IF MapHas(m, k) THEN [m EXCEPT ![MapIdx(m, k)].val = v]
    ELSE Append(m, [key |-> k, val |-> v])
MapDelete(m, k) == SelectSeq(m, LAMBDA e : e.key # k)
MapKeys(m) == {m[i].key : i \in 1..Len(m)}

\* the mutable state of one CacheManager, as one record
This == [cache |-> cache, accessOrder |-> accessOrder, timers |-> timers,
         scheduled |-> scheduled, stats |-> stats, events |-> << >>]

\* Logger.debug / Logger.info / Logger.error call: message, key and up to three numbers
Event(msg, key, x, y, z) == [msg |-> msg, key |-> key, x |-> x, y |-> y, z |-> z]
Log(S, e) == [S EXCEPT !.events = Append(@, e)]

----------------------------------------------------------------------------
(* constructor *)

Constructor(options) ==
    [maxSize    |-> IF options.maxSize # 0 THEN options.maxSize ELSE DefaultMaxSize,
     maxMemory  |-> IF options.maxMemory # 0 THEN options.maxMemory ELSE DefaultMaxMemory,
     defaultTTL |-> IF options.defaultTTL # 0 THEN options.defaultTTL ELSE DefaultTTL]

InitStats == [hits |-> 0, misses |-> 0, sets |-> 0, deletes |-> 0, evictions |-> 0,
              memoryUsage |-> 0]

----------------------------------------------------------------------------
(* calculateSize *)

KeyBytes(key) == Len(key)

ValueBytes(value) ==
    IF value.type = "string" THEN value.len
    ELSE IF value.type = "cyclic" THEN FallbackSize
    ELSE PrimitiveSize

\* calculateSize that leaves the key out of the estimate
calculateSize_noKey(key, value) == ValueBytes(value) + MetadataOverhead

calculateSize(key, value) == KeyBytes(key) + ValueBytes(value) + MetadataOverhead

----------------------------------------------------------------------------
(* JS strings as sequences of characters.  A character has a number of      *)
(* UTF-16 code units (what `length` counts) and a number of UTF-8 bytes     *)
(* (what Blob and Buffer hold).                                             *)

Chars == {"a", "U+00E9", "U+20AC", "U+1F600"}

Utf8Bytes(c) ==
    CASE c = "a" -> 1
      [] c = "U+00E9" -> 2
      [] c = "U+20AC" -> 3
      [] c = "U+1F600" -> 4

Utf16Units(c) == IF c = "U+1F600" THEN 2 ELSE 1

Strings == UNION {[1..n -> Chars] : n \in 0..MaxStrLen}

RECURSIVE BlobSize(_)
\* new Blob([s]).size, Buffer.from(s).length: the UTF-8 encoding of s
BlobSize(s) == IF s = << >> THEN 0 ELSE Utf8Bytes(Head(s)) + BlobSize(Tail(s))

RECURSIVE JsLength(_)
\* s.length
JsLength(s) == IF s = << >> THEN 0 ELSE Utf16Units(Head(s)) + JsLength(Tail(s))

\* the string s as a value handed to the cache
StringValue(s) == [type |-> "string", len |-> BlobSize(s)]

----------------------------------------------------------------------------
(* UserManager.hashPassword *)

\* buffer.toString('base64') of n bytes: four characters per started group of three
Base64Length(n) == 4 * ((n + 2) \div 3)

hashPassword(password) ==
    IF password.type \in {"null", "undefined"}
    THEN [thrown |-> TRUE, value |-> JsUndefined]
    ELSE [thrown |-> FALSE,
          value |-> [type |-> "string", len |-> Base64Length(password.len)]]

----------------------------------------------------------------------------
(* delete(key, userDeletion) applied to state S *)

\* delete that forgets `this.stats.memoryUsage -= entry.size`
delete_keepsMemoryUsage(S, key, userDeletion) ==
    IF ~MapHas(S.cache, key) THEN S
    ELSE
        LET hasTimer == MapHas(S.timers, key)
        IN [S EXCEPT
              !.scheduled = IF hasTimer THEN @ \ {MapGet(S.timers, key)} ELSE @,
              !.timers = IF hasTimer THEN MapDelete(@, key) ELSE @,
              !.cache = MapDelete(@, key),
              !.accessOrder = MapDelete(@, key),
              !.stats.deletes = IF userDeletion THEN @ + 1 ELSE @]

\* delete that forgets `this.accessOrder.delete(key)`
delete_keepsAccessOrder(S, key, userDeletion) ==
    IF ~MapHas(S.cache, key) THEN S
    ELSE
        LET entry == MapGet(S.cache, key)
            hasTimer == MapHas(S.timers, key)
        IN [S EXCEPT
              !.scheduled = IF hasTimer THEN @ \ {MapGet(S.timers, key)} ELSE @,
              !.timers = IF hasTimer THEN MapDelete(@, key) ELSE @,
              !.cache = MapDelete(@, key),
              !.stats = [@ EXCEPT !.memoryUsage = @ - entry.size,
                                  !.deletes = IF userDeletion THEN @ + 1 ELSE @]]

\* delete that drops the timer handle without clearTimeout
delete_noClearTimeout(S, key, userDeletion) ==
    IF ~MapHas(S.cache, key) THEN S
    ELSE
        LET entry == MapGet(S.cache, key)
        IN [S EXCEPT
              !.timers = MapDelete(@, key),
              !.cache = MapDelete(@, key),
              !.accessOrder = MapDelete(@, key),
              !.stats = [@ EXCEPT !.memoryUsage = @ - entry.size,
                                  !.deletes = IF userDeletion THEN @ + 1 ELSE @]]

delete(S, key, userDeletion) ==
    IF ~MapHas(S.cache, key) THEN S
    ELSE
        LET entry == MapGet(S.cache, key)
            hasTimer == MapHas(S.timers, key)
        IN [S EXCEPT
              !.scheduled = IF hasTimer THEN @ \ {MapGet(S.timers, key)} ELSE @,
              !.timers = IF hasTimer THEN MapDelete(@, key) ELSE @,
              !.cache = MapDelete(@, key),
              !.accessOrder = MapDelete(@, key),
              !.stats = [@ EXCEPT !.memoryUsage = @ - entry.size,
                                  !.deletes = IF userDeletion THEN @ + 1 ELSE @],
              !.events = IF userDeletion
                         THEN Append(@, Event("Cache entry deleted by user", key, entry.size, 0, 0))
                         ELSE @]

\* delete that reports true whether or not the key was stored
deleteResult_alwaysTrue(S, key) == JsTrue

deleteResult(S, key) == IF MapHas(S.cache, key) THEN JsTrue ELSE JsFalse

----------------------------------------------------------------------------
(* evictLRU *)

\* index of the first entry of the access map with the strictly smallest time,
\* 0 when the map is empty (oldestKey stays null)
RECURSIVE OldestScan(_, _, _)
OldestScan(ao, i, best) ==
    IF i > Len(ao) THEN best
    ELSE IF best = 0 \/ ao[i].val < ao[best].val THEN OldestScan(ao, i + 1, i)
    ELSE OldestScan(ao, i + 1, best)

\* evictLRU that removes its victim with delete(oldestKey): userDeletion defaults
\* to true, so the eviction is also counted as a user delete
evictLRU_countsDelete(S) ==
    IF Len(S.cache) = 0 THEN S
    ELSE
        LET idx == OldestScan(S.accessOrder, 1, 0)
        IN IF idx # 0 /\ S.accessOrder[idx].key # ""
           THEN LET oldestKey == S.accessOrder[idx].key
                    D == delete(S, oldestKey, TRUE)
                IN Log([D EXCEPT !.stats.evictions = @ + 1],
                       Event("LRU eviction", oldestKey,
                             IF MapHas(S.cache, oldestKey) THEN MapGet(S.cache, oldestKey).size
                             ELSE 0, 0, 0))
           ELSE S

evictLRU(S) ==
    IF Len(S.cache) = 0 THEN S
    ELSE
        LET idx == OldestScan(S.accessOrder, 1, 0)
        IN IF idx # 0 /\ S.accessOrder[idx].key # ""
           THEN LET oldestKey == S.accessOrder[idx].key
                    D == delete(S, oldestKey, FALSE)
                IN Log([D EXCEPT !.stats.evictions = @ + 1],
                       Event("LRU eviction", oldestKey,
                             IF MapHas(S.cache, oldestKey) THEN MapGet(S.cache, oldestKey).size
                             ELSE 0, 0, 0))
           ELSE S

----------------------------------------------------------------------------
(* evictMemory *)

\* Array.prototype.sort((a, b) => a[1] - b[1]): stable, ascending by time
\* the insertion with `<=`: an entry moves in front of the entries of equal time
RECURSIVE InsertSorted_tiesReversed(_, _)
InsertSorted_tiesReversed(sorted, e) ==
    IF sorted = << >> THEN <<e>>
    ELSE IF e.val <= sorted[Len(sorted)].val
         THEN Append(InsertSorted_tiesReversed(SubSeq(sorted, 1, Len(sorted) - 1), e),
                     sorted[Len(sorted)])
         ELSE Append(sorted, e)

RECURSIVE InsertSorted(_, _)
InsertSorted(sorted, e) ==
    IF sorted = << >> THEN <<e>>
    ELSE IF e.val < sorted[Len(sorted)].val
         THEN Append(InsertSorted(SubSeq(sorted, 1, Len(sorted) - 1), e), sorted[Len(sorted)])
         ELSE Append(sorted, e)

\* the sort with its comparator reversed (b[1] - a[1]): newest first
RECURSIVE InsertSortedDesc(_, _)
InsertSortedDesc(sorted, e) ==
    IF sorted = << >> THEN <<e>>
    ELSE IF e.val > sorted[Len(sorted)].val
         THEN Append(InsertSortedDesc(SubSeq(sorted, 1, Len(sorted) - 1), e),
                     sorted[Len(sorted)])
         ELSE Append(sorted, e)

RECURSIVE SortByTime_descending(_)
SortByTime_descending(ao) ==
    IF ao = << >> THEN << >>
    ELSE InsertSortedDesc(SortByTime_descending(SubSeq(ao, 1, Len(ao) - 1)), ao[Len(ao)])

RECURSIVE SortByTime(_)
SortByTime(ao) ==
    IF ao = << >> THEN << >>
    ELSE InsertSorted(SortByTime(SubSeq(ao, 1, Len(ao) - 1)), ao[Len(ao)])

RECURSIVE EvictLoop(_, _, _, _, _)
EvictLoop(S, sortedEntries, i, freedSize, targetSize) ==
    IF i > Len(sortedEntries) \/ freedSize >= targetSize
    THEN Log(S, Event("Memory eviction completed", "", targetSize, freedSize,
                      Len(sortedEntries)))
    ELSE
        LET key == sortedEntries[i].key
        IN IF MapHas(S.cache, key)
           THEN LET D == delete(S, key, FALSE)
                IN EvictLoop([D EXCEPT !.stats.evictions = @ + 1], sortedEntries, i + 1,
                             freedSize + MapGet(S.cache, key).size, targetSize)
           ELSE EvictLoop(S, sortedEntries, i + 1, freedSize, targetSize)

\* evictMemory whose target leaves out the size of the entry to insert
evictMemory_targetWithoutRequired(S, requiredSize, maxMemory) ==
    EvictLoop(S, SortByTime(S.accessOrder), 1, 0, S.stats.memoryUsage - maxMemory)

evictMemory(S, requiredSize, maxMemory) ==
    EvictLoop(S, SortByTime(S.accessOrder), 1, 0,
              S.stats.memoryUsage + requiredSize - maxMemory)

----------------------------------------------------------------------------
(* set(key, value, ttl) at time t under configuration c *)

actualTTL(c, ttl) == IF ttl # 0 THEN ttl ELSE c.defaultTTL

expiresAtOf(c, ttl, t) == IF actualTTL(c, ttl) > 0 THEN t + actualTTL(c, ttl) ELSE NoExpiry

\* setTimeout(callback, delay): the runtime keeps the delay in a signed 32-bit
\* integer and sets a delay above its maximum (2^31 - 1 ms) to 1 ms.  The integers
\* of the model end at that maximum, so the limit is scaled down: TimeoutMax is a
\* delay above every ttl and every time of the other specifications.
TimeoutMax == 1000

timeoutDelay(delay) == IF delay > TimeoutMax THEN 1 ELSE delay

\* set that runs both eviction checks with the old entry of key still counted and
\* releases that entry only afterwards
set_releaseAfterChecks(S, c, key, value, ttl, t) ==
    LET expiresAt == expiresAtOf(c, ttl, t)
        size == calculateSize(key, value)
        S1 == IF S.stats.memoryUsage + size > c.maxMemory
              THEN evictMemory(S, size, c.maxMemory) ELSE S
        S2 == IF Len(S1.cache) >= c.maxSize THEN evictLRU(S1) ELSE S1
        S3 == IF MapHas(S2.cache, key) THEN delete(S2, key, FALSE) ELSE S2
        entry == [value |-> value, createdAt |-> t, expiresAt |-> expiresAt,
                  lastAccessed |-> t, accessCount |-> 0, size |-> size]
        timer == [key |-> key, ttl |-> actualTTL(c, ttl), due |-> t + timeoutDelay(actualTTL(c, ttl))]
    IN [S3 EXCEPT
          !.cache = MapSet(@, key, entry),
          !.accessOrder = MapSet(@, key, t),
          !.stats = [@ EXCEPT !.memoryUsage = @ + size, !.sets = @ + 1],
          !.timers = IF expiresAt # NoExpiry THEN MapSet(@, key, timer) ELSE @,
          !.scheduled = IF expiresAt # NoExpiry THEN @ \cup {timer} ELSE @,
          !.events = Append(@, Event("Cache entry set", key, size, Len(S3.cache) + 1,
                                     S3.stats.memoryUsage + size))]

\* set that stores the entry first and runs the two eviction checks afterwards
set_insertBeforeChecks(S, c, key, value, ttl, t) ==
    LET expiresAt == expiresAtOf(c, ttl, t)
        size == calculateSize(key, value)
        S1 == IF MapHas(S.cache, key) THEN delete(S, key, FALSE) ELSE S
        entry == [value |-> value, createdAt |-> t, expiresAt |-> expiresAt,
                  lastAccessed |-> t, accessCount |-> 0, size |-> size]
        timer == [key |-> key, ttl |-> actualTTL(c, ttl),
                  due |-> t + timeoutDelay(actualTTL(c, ttl))]
        S2 == [S1 EXCEPT
                 !.cache = MapSet(@, key, entry),
                 !.accessOrder = MapSet(@, key, t),
                 !.stats = [@ EXCEPT !.memoryUsage = @ + size, !.sets = @ + 1],
                 !.timers = IF expiresAt # NoExpiry THEN MapSet(@, key, timer) ELSE @,
                 !.scheduled = IF expiresAt # NoExpiry THEN @ \cup {timer} ELSE @]
        S3 == IF S2.stats.memoryUsage > c.maxMemory
              THEN evictMemory(S2, 0, c.maxMemory) ELSE S2
        S4 == IF Len(S3.cache) > c.maxSize THEN evictLRU(S3) ELSE S3
    IN Log(S4, Event("Cache entry set", key, size, Len(S4.cache), S4.stats.memoryUsage))

\* set whose count check fires one entry early (`this.cache.size + 1 >= this.maxSize`)
set_countOffByOne(S, c, key, value, ttl, t) ==
    LET expiresAt == expiresAtOf(c, ttl, t)
        size == calculateSize(key, value)
        S1 == IF MapHas(S.cache, key) THEN delete(S, key, FALSE) ELSE S
        S2 == IF S1.stats.memoryUsage + size > c.maxMemory
              THEN evictMemory(S1, size, c.maxMemory) ELSE S1
        S3 == IF Len(S2.cache) + 1 >= c.maxSize THEN evictLRU(S2) ELSE S2
        entry == [value |-> value, createdAt |-> t, expiresAt |-> expiresAt,
                  lastAccessed |-> t, accessCount |-> 0, size |-> size]
        timer == [key |-> key, ttl |-> actualTTL(c, ttl),
                  due |-> t + timeoutDelay(actualTTL(c, ttl))]
    IN [S3 EXCEPT
          !.cache = MapSet(@, key, entry),
          !.accessOrder = MapSet(@, key, t),
          !.stats = [@ EXCEPT !.memoryUsage = @ + size, !.sets = @ + 1],
          !.timers = IF expiresAt # NoExpiry THEN MapSet(@, key, timer) ELSE @,
          !.scheduled = IF expiresAt # NoExpiry THEN @ \cup {timer} ELSE @,
          !.events = Append(@, Event("Cache entry set", key, size, Len(S3.cache) + 1,
                                     S3.stats.memoryUsage + size))]

set(S, c, key, value, ttl, t) ==
    LET expiresAt == expiresAtOf(c, ttl, t)
        size == calculateSize(key, value)
        S1 == IF MapHas(S.cache, key) THEN delete(S, key, FALSE) ELSE S
        S2 == IF S1.stats.memoryUsage + size > c.maxMemory
              THEN evictMemory(S1, size, c.maxMemory) ELSE S1
        S3 == IF Len(S2.cache) >= c.maxSize THEN evictLRU(S2) ELSE S2
        entry == [value |-> value, createdAt |-> t, expiresAt |-> expiresAt,
                  lastAccessed |-> t, accessCount |-> 0, size |-> size]
        timer == [key |-> key, ttl |-> actualTTL(c, ttl), due |-> t + timeoutDelay(actualTTL(c, ttl))]
    IN [S3 EXCEPT
          !.cache = MapSet(@, key, entry),
          !.accessOrder = MapSet(@, key, t),
          !.stats = [@ EXCEPT !.memoryUsage = @ + size, !.sets = @ + 1],
          !.timers = IF expiresAt # NoExpiry THEN MapSet(@, key, timer) ELSE @,
          !.scheduled = IF expiresAt # NoExpiry THEN @ \cup {timer} ELSE @,
          !.events = Append(@, Event("Cache entry set", key, size, Len(S3.cache) +
                                     (IF MapHas(S3.cache, key) THEN 0 ELSE 1),
                                     S3.stats.memoryUsage + size))]

----------------------------------------------------------------------------
(* get(key), has(key) at time t *)

isExpired(entry, t) == entry.expiresAt # NoExpiry /\ t > entry.expiresAt

\* get that reports an expired entry as a miss but leaves it in the store
get_noLazyDelete(S, key, t) ==
    IF ~MapHas(S.cache, key)
    THEN Log([S EXCEPT !.stats.misses = @ + 1], Event("Cache miss", key, 0, 0, 0))
    ELSE IF isExpired(MapGet(S.cache, key), t)
    THEN Log([S EXCEPT !.stats.misses = @ + 1],
             Event("Cache entry expired on access", key, 0, 0, 0))
    ELSE LET entry == MapGet(S.cache, key)
         IN [S EXCEPT
               !.cache = MapSet(@, key, [entry EXCEPT !.lastAccessed = t,
                                                      !.accessCount = @ + 1]),
               !.accessOrder = MapSet(@, key, t),
               !.stats.hits = @ + 1,
               !.events = Append(@, Event("Cache hit", key, entry.accessCount + 1,
                                          t - entry.createdAt, 0))]

\* get that updates the entry on a hit but not its time in this.accessOrder
get_noIndexUpdate(S, key, t) ==
    IF ~MapHas(S.cache, key)
    THEN Log([S EXCEPT !.stats.misses = @ + 1], Event("Cache miss", key, 0, 0, 0))
    ELSE IF isExpired(MapGet(S.cache, key), t)
    THEN LET D == delete(S, key, FALSE)
         IN Log([D EXCEPT !.stats.misses = @ + 1],
                Event("Cache entry expired on access", key, 0, 0, 0))
    ELSE LET entry == MapGet(S.cache, key)
         IN [S EXCEPT
               !.cache = MapSet(@, key, [entry EXCEPT !.lastAccessed = t,
                                                      !.accessCount = @ + 1]),
               !.stats.hits = @ + 1,
               !.events = Append(@, Event("Cache hit", key, entry.accessCount + 1,
                                          t - entry.createdAt, 0))]

\* get that records a hit in this.accessOrder but not in entry.lastAccessed
get_staleLastAccessed(S, key, t) ==
    IF ~MapHas(S.cache, key)
    THEN Log([S EXCEPT !.stats.misses = @ + 1], Event("Cache miss", key, 0, 0, 0))
    ELSE IF isExpired(MapGet(S.cache, key), t)
    THEN LET D == delete(S, key, FALSE)
         IN Log([D EXCEPT !.stats.misses = @ + 1],
                Event("Cache entry expired on access", key, 0, 0, 0))
    ELSE LET entry == MapGet(S.cache, key)
         IN [S EXCEPT
               !.cache = MapSet(@, key, [entry EXCEPT !.accessCount = @ + 1]),
               !.accessOrder = MapSet(@, key, t),
               !.stats.hits = @ + 1,
               !.events = Append(@, Event("Cache hit", key, entry.accessCount + 1,
                                          t - entry.createdAt, 0))]

get(S, key, t) ==
    IF ~MapHas(S.cache, key)
    THEN Log([S EXCEPT !.stats.misses = @ + 1], Event("Cache miss", key, 0, 0, 0))
    ELSE IF isExpired(MapGet(S.cache, key), t)
    THEN LET D == delete(S, key, FALSE)
         IN Log([D EXCEPT !.stats.misses = @ + 1],
                Event("Cache entry expired on access", key, 0, 0, 0))
    ELSE LET entry == MapGet(S.cache, key)
         IN [S EXCEPT
               !.cache = MapSet(@, key, [entry EXCEPT !.lastAccessed = t,
                                                      !.accessCount = @ + 1]),
               !.accessOrder = MapSet(@, key, t),
               !.stats.hits = @ + 1,
               !.events = Append(@, Event("Cache hit", key, entry.accessCount + 1,
                                          t - entry.createdAt, 0))]

getResult(S, key, t) ==
    IF ~MapHas(S.cache, key) THEN JsNull
    ELSE IF isExpired(MapGet(S.cache, key), t) THEN JsNull
    ELSE MapGet(S.cache, key).value

\* has written as a get whose value is dropped: it counts as an access
has_viaGet(S, key, t) ==
    IF ~MapHas(S.cache, key)
    THEN Log([S EXCEPT !.stats.misses = @ + 1], Event("Cache miss", key, 0, 0, 0))
    ELSE IF isExpired(MapGet(S.cache, key), t)
    THEN LET D == delete(S, key, FALSE)
         IN Log([D EXCEPT !.stats.misses = @ + 1],
                Event("Cache entry expired on access", key, 0, 0, 0))
    ELSE LET entry == MapGet(S.cache, key)
         IN [S EXCEPT
               !.cache = MapSet(@, key, [entry EXCEPT !.lastAccessed = t,
                                                      !.accessCount = @ + 1]),
               !.accessOrder = MapSet(@, key, t),
               !.stats.hits = @ + 1]

has(S, key, t) ==
    IF MapHas(S.cache, key) /\ isExpired(MapGet(S.cache, key), t)
    THEN delete(S, key, FALSE) ELSE S

\* has without the expiry check
hasResult_noExpiryCheck(S, key, t) ==
    IF MapHas(S.cache, key) THEN JsTrue ELSE JsFalse

hasResult(S, key, t) ==
    IF ~MapHas(S.cache, key) THEN JsFalse
    ELSE IF isExpired(MapGet(S.cache, key), t) THEN JsFalse
    ELSE JsTrue

----------------------------------------------------------------------------
(* clear, cleanup *)

\* clear that empties this.timers without clearTimeout on the handles
clear_noClearTimeout(S) ==
    [S EXCEPT !.cache = << >>,
              !.accessOrder = << >>,
              !.timers = << >>,
              !.stats.memoryUsage = 0,
              !.events = Append(@, Event("Cache cleared", "", Len(S.cache),
                                         S.stats.memoryUsage, 0))]

\* clear that cancels the timers but forgets `this.timers.clear()`
clear_keepsTimerMap(S) ==
    [S EXCEPT !.scheduled = @ \ {S.timers[i].val : i \in 1..Len(S.timers)},
              !.cache = << >>,
              !.accessOrder = << >>,
              !.stats.memoryUsage = 0,
              !.events = Append(@, Event("Cache cleared", "", Len(S.cache),
                                         S.stats.memoryUsage, 0))]

clear(S) ==
    [S EXCEPT !.scheduled = @ \ {S.timers[i].val : i \in 1..Len(S.timers)},
              !.cache = << >>,
              !.accessOrder = << >>,
              !.timers = << >>,
              !.stats.memoryUsage = 0,
              !.events = Append(@, Event("Cache cleared", "", Len(S.cache),
                                         S.stats.memoryUsage, 0))]

RECURSIVE CleanupLoop(_, _, _, _)
CleanupLoop(S, entries, i, t) ==
    IF i > Len(entries) THEN S
    ELSE IF MapHas(S.cache, entries[i].key) /\ isExpired(entries[i].val, t)
    THEN CleanupLoop(delete(S, entries[i].key, FALSE), entries, i + 1, t)
    ELSE CleanupLoop(S, entries, i + 1, t)

\* a sweep whose loop ends at the first entry it removes
cleanup_firstOnly(S, t) ==
    LET expired == SelectSeq(S.cache, LAMBDA e : isExpired(e.val, t))
    IN IF expired = << >> THEN S
       ELSE Log(delete(S, expired[1].key, FALSE),
                Event("Cache cleanup completed", "", 1, expired[1].val.size,
                      Len(S.cache) - 1))

cleanup(S, t) ==
    LET D == CleanupLoop(S, S.cache, 1, t)
        removedCount == Len(S.cache) - Len(D.cache)
    IN IF removedCount > 0
       THEN Log(D, Event("Cache cleanup completed", "", removedCount,
                         S.stats.memoryUsage - D.stats.memoryUsage, Len(D.cache)))
       ELSE D

\* a callback that counts the entry it removes as an eviction
timerCallback_countsEviction(S, timer) ==
    LET D == delete([S EXCEPT !.scheduled = @ \ {timer}], timer.key, FALSE)
    IN Log([D EXCEPT !.stats.evictions =
                         IF MapHas(S.cache, timer.key) THEN @ + 1 ELSE @],
           Event("Cache entry expired", timer.key, timer.ttl, 0, 0))

\* a callback that logs the expiry and leaves the entry where it is
timerCallback_noDelete(S, timer) ==
    Log([S EXCEPT !.scheduled = @ \ {timer}],
        Event("Cache entry expired", timer.key, timer.ttl, 0, 0))

\* the setTimeout callback armed by set, for the timer handle `timer`
timerCallback(S, timer) ==
    Log(delete([S EXCEPT !.scheduled = @ \ {timer}], timer.key, FALSE),
        Event("Cache entry expired", timer.key, timer.ttl, 0, 0))

\* preload(data, ttl): one set per own property of data, in property order
RECURSIVE preloadLoop(_, _, _, _, _, _)
preloadLoop(S, c, data, i, ttl, t) ==
    IF i > Len(data) THEN S
    ELSE preloadLoop(set(S, c, data[i].key, data[i].val, ttl, t), c, data, i + 1, ttl, t)

preload(S, c, data, ttl, t) ==
    LET D == preloadLoop(S, c, data, 1, ttl, t)
    IN Log(D, Event("Cache preloaded", "", Len(data), D.stats.memoryUsage, 0))

----------------------------------------------------------------------------
(* getStats, getDetailedInfo, getTopEntries, export: they read the cache and  *)
(* return a value.  The fields that formatBytes and formatDuration render as  *)
(* text (memoryUsage, maxMemory, uptime, size, age, expiresIn) are left out.  *)

\* (x * 100).toFixed(2) + '%' for x = num / den: a string, given by the digits
\* of the percentage in hundredths (5000 is "50.00%"), rounded to the nearest
PercentText(num, den) ==
    [type |-> "string", hundredths |-> (20000 * num + den) \div (2 * den), suffix |-> "%"]

\* getStats whose rate divides the hits by the misses
getStats_hitsOverMisses(S, c, t) ==
    [entries |-> Len(S.cache),
     memoryUsageBytes |-> S.stats.memoryUsage,
     hits |-> S.stats.hits,
     misses |-> S.stats.misses,
     hitRate |-> IF S.stats.misses > 0
                 THEN PercentText(S.stats.hits, S.stats.misses)
                 ELSE PercentText(0, 1),
     sets |-> S.stats.sets,
     deletes |-> S.stats.deletes,
     evictions |-> S.stats.evictions]

getStats(S, c, t) ==
    [entries |-> Len(S.cache),
     memoryUsageBytes |-> S.stats.memoryUsage,
     hits |-> S.stats.hits,
     misses |-> S.stats.misses,
     hitRate |-> IF S.stats.hits + S.stats.misses > 0
                 THEN PercentText(S.stats.hits, S.stats.hits + S.stats.misses)
                 ELSE PercentText(0, 1),
     sets |-> S.stats.sets,
     deletes |-> S.stats.deletes,
     evictions |-> S.stats.evictions]

\* Array.prototype.sort((a, b) => b.accessCount - a.accessCount): stable,
\* descending by accessCount
RECURSIVE InsertByCount(_, _)
InsertByCount(sorted, e) ==
    IF sorted = << >> THEN <<e>>
    ELSE IF e.accessCount > sorted[Len(sorted)].accessCount
         THEN Append(InsertByCount(SubSeq(sorted, 1, Len(sorted) - 1), e),
                     sorted[Len(sorted)])
         ELSE Append(sorted, e)

RECURSIVE SortByCount(_)
SortByCount(entries) ==
    IF entries = << >> THEN << >>
    ELSE InsertByCount(SortByCount(SubSeq(entries, 1, Len(entries) - 1)),
                       entries[Len(entries)])

\* Array.prototype.slice(0, n) for n >= 0
SliceTo(a, n) == SubSeq(a, 1, IF n < Len(a) THEN n ELSE Len(a))

DetailedInfoLimit == 50
TopEntriesDefaultLimit == 10

\* getDetailedInfo() declares no parameter: an argument passed as limit is ignored
getDetailedInfo(S, c, limit, t) ==
    LET entries == [i \in 1..Len(S.cache) |->
                      [key |-> S.cache[i].key,
                       accessCount |-> S.cache[i].val.accessCount,
                       expired |-> /\ S.cache[i].val.expiresAt # NoExpiry
                                   /\ t > S.cache[i].val.expiresAt]]
    IN [stats |-> getStats(S, c, t),
        entries |-> SliceTo(SortByCount(entries), DetailedInfoLimit),
        totalEntries |-> Len(entries)]

\* getTopEntries(limit); getTopEntries() is getTopEntries(TopEntriesDefaultLimit)
getTopEntries(S, limit, t) ==
    LET entries == [i \in 1..Len(S.cache) |->
                      [key |-> S.cache[i].key,
                       accessCount |-> S.cache[i].val.accessCount]]
    IN SliceTo(SortByCount(entries), limit)

\* export() writes nothing
export(S, t) == S

\* export that copies every stored entry, expired or not
exportResult_noExpiryFilter(S, t) ==
    [i \in 1..Len(S.cache) |->
        [key |-> S.cache[i].key,
         val |-> [value |-> S.cache[i].val.value,
                  createdAt |-> S.cache[i].val.createdAt,
                  expiresAt |-> S.cache[i].val.expiresAt]]]

\* the object export() returns: its properties in insertion order
exportResult(S, t) ==
    LET kept == SelectSeq(S.cache, LAMBDA e : e.val.expiresAt = NoExpiry
                                              \/ t < e.val.expiresAt)
    IN [i \in 1..Len(kept) |->
           [key |-> kept[i].key,
            val |-> [value |-> kept[i].val.value,
                     createdAt |-> kept[i].val.createdAt,
                     expiresAt |-> kept[i].val.expiresAt]]]

----------------------------------------------------------------------------
(* getOrSet: the catch block around `await asyncFunction()` *)

\* the errors asyncFunction() may reject with
ComputeErrors == {"timeout", "refused"}

\* a catch block that caches the failure as a null entry before rethrowing
getOrSetCatch_storesNull(S, key) ==
    Log(set(S, cfg, key, JsNull, 0, now),
        Event("Error in getOrSet async function", key, 0, 0, 0))

\* catch (error): the error is logged; the cache is not written
getOrSetCatch(S, key) ==
    Log(S, Event("Error in getOrSet async function", key, 0, 0, 0))

\* what the rejected call throws to its caller: `throw error`
getOrSetThrown(S, key, error) == error

----------------------------------------------------------------------------
(* The state machine *)

OpsUsed == stats.hits + stats.misses + stats.sets + stats.deletes

\* stored keys of S in the order of their last set or successful get
Restrict(order, S) == SelectSeq(order, LAMBDA k : MapHas(S.cache, k))
Touch(order, key, S) ==
    IF MapHas(S.cache, key)
    THEN Append(SelectSeq(order, LAMBDA k : k # key /\ MapHas(S.cache, k)), key)
    ELSE Restrict(order, S)

RECURSIVE TouchAll(_, _, _, _)
TouchAll(order, data, i, S) ==
    IF i > Len(data) THEN Restrict(order, S)
    ELSE TouchAll(Append(SelectSeq(order, LAMBDA k : k # data[i].key), data[i].key),
                  data, i + 1, S)

\* no function has been called yet
NoCall == [fn |-> "none"]

\* the operation returns: its effects on the cache become the state
Commit(S, order) ==
    /\ cache' = S.cache
    /\ accessOrder' = S.accessOrder
    /\ timers' = S.timers
    /\ scheduled' = S.scheduled
    /\ stats' = S.stats
    /\ useOrder' = order
    /\ UNCHANGED <<cfg, now, call>>

Init ==
    /\ cfg \in {Constructor(o) : o \in Options}
    /\ now = 1
    /\ cache = << >>
    /\ accessOrder = << >>
    /\ timers = << >>
    /\ scheduled = {}
    /\ stats = InitStats
    /\ inflight = << >>
    /\ useOrder = << >>
    /\ call = NoCall

Tick ==
    /\ now < MaxTime
    /\ now' = now + 1
    /\ UNCHANGED <<cfg, cache, accessOrder, timers, scheduled, stats, inflight, useOrder,
                    call>>

Set(key, value, ttl) ==
    /\ OpsUsed < MaxOps
    /\ LET S == set(This, cfg, key, value, ttl, now)
       IN Commit(S, Touch(useOrder, key, S))
    /\ UNCHANGED inflight

Get(key) ==
    /\ OpsUsed < MaxOps
    /\ LET S == get(This, key, now)
       IN Commit(S, IF S.stats.hits > stats.hits THEN Touch(useOrder, key, S)
                    ELSE Restrict(useOrder, S))
    /\ UNCHANGED inflight

Has(key) ==
    /\ LET S == has(This, key, now)
       IN Commit(S, Restrict(useOrder, S))
    /\ UNCHANGED inflight

Delete(key) ==
    /\ OpsUsed < MaxOps
    /\ LET S == delete(This, key, TRUE)
       IN Commit(S, Restrict(useOrder, S))
    /\ UNCHANGED inflight

Clear ==
    /\ LET S == clear(This)
       IN Commit(S, Restrict(useOrder, S))
    /\ UNCHANGED inflight

Cleanup ==
    /\ LET S == cleanup(This, now)
       IN Commit(S, Restrict(useOrder, S))
    /\ UNCHANGED inflight

TimerFire(timer) ==
    /\ timer \in scheduled
    /\ timer.due <= now
    /\ LET S == timerCallback(This, timer)
       IN Commit(S, Restrict(useOrder, S))
    /\ UNCHANGED inflight

Preload(data, ttl) ==
    /\ OpsUsed + Len(data) <= MaxOps
    /\ LET S == preload(This, cfg, data, ttl, now)
       IN Commit(S, TouchAll(useOrder, data, 1, S))
    /\ UNCHANGED inflight

\* getOrSet up to its await: a hit returns, a miss suspends in asyncFunction()
GetOrSetCall(key, ttl) ==
    /\ OpsUsed < MaxOps
    /\ LET S == get(This, key, now)
           cached == getResult(This, key, now)
       IN /\ Commit(S, IF S.stats.hits > stats.hits THEN Touch(useOrder, key, S)
                       ELSE Restrict(useOrder, S))
          /\ inflight' = IF cached # JsNull THEN inflight
                         ELSE Append(inflight, [key |-> key, ttl |-> ttl])

\* asyncFunction() resolved with value: the suspended call i continues with set
GetOrSetResolve(i, value) ==
    /\ i \in 1..Len(inflight)
    /\ OpsUsed < MaxOps
    /\ LET S == set(This, cfg, inflight[i].key, value, inflight[i].ttl, now)
       IN Commit(S, Touch(useOrder, inflight[i].key, S))
    /\ inflight' = SubSeq(inflight, 1, i - 1) \o SubSeq(inflight, i + 1, Len(inflight))

\* asyncFunction() rejected: the error is logged and rethrown
GetOrSetReject(i) ==
    /\ i \in 1..Len(inflight)
    /\ LET S == getOrSetCatch(This, inflight[i].key)
       IN Commit(S, useOrder)
    /\ inflight' = SubSeq(inflight, 1, i - 1) \o SubSeq(inflight, i + 1, Len(inflight))

\* the reading operations leave every field as it is
GetStats == UNCHANGED vars

GetDetailedInfo == UNCHANGED vars

GetTopEntries == UNCHANGED vars

Export ==
    /\ LET S == export(This, now)
       IN Commit(S, Restrict(useOrder, S))
    /\ UNCHANGED inflight

\* the objects passed to preload: one or two own properties, in property order
PreloadData ==
    { <<[key |-> "", val |-> Cyclic]>>,
      <<[key |-> "a", val |-> Str199], [key |-> "b", val |-> Str199]>> }

Next ==
    \/ Tick
    \/ \E key \in Keys, value \in Values, ttl \in TTLArgs : Set(key, value, ttl)
    \/ \E key \in Keys : Get(key)
    \/ \E key \in Keys : Has(key)
    \/ \E key \in Keys : Delete(key)
    \/ Clear
    \/ Cleanup
    \/ \E timer \in scheduled : TimerFire(timer)
    \/ \E data \in PreloadData, ttl \in OmittedTTL : Preload(data, ttl)
    \/ \E key \in GetOrSetKeys, ttl \in OmittedTTL : GetOrSetCall(key, ttl)
    \/ \E i \in 1..Len(inflight), value \in Values : GetOrSetResolve(i, value)
    \/ \E i \in 1..Len(inflight) : GetOrSetReject(i)
    \/ GetStats
    \/ GetDetailedInfo
    \/ GetTopEntries
    \/ Export

Spec == Init /\ [][Next]_vars

\* the same machine, constructed with one of the edge options
InitEdge ==
    /\ cfg \in {Constructor(o) : o \in EdgeOptions}
    /\ now = 1
    /\ cache = << >>
    /\ accessOrder = << >>
    /\ timers = << >>
    /\ scheduled = {}
    /\ stats = InitStats
    /\ inflight = << >>
    /\ useOrder = << >>
    /\ call = NoCall

SpecEdge == InitEdge /\ [][Next]_vars

\* the runtime runs a setTimeout callback that is due in the end.  The sweep
\* (setInterval) is left free to run or not: what holds without its help holds
\* with it.
Fairness == WF_vars(\E timer \in scheduled : TimerFire(timer))

\* a cache with a default TTL, so that every way of storing arms a timer
InitDefaultTTL ==
    /\ Init
    /\ cfg = Constructor([maxSize |-> 2, maxMemory |-> 1000, defaultTTL |-> 2])

SpecFair == InitDefaultTTL /\ [][Next]_vars /\ Fairness

----------------------------------------------------------------------------
(* The functions that read no field, applied to arguments of every shape *)

\* arguments: a string with its text, or a value that is not a string
SizeInputs ==
    {[text |-> s, value |-> StringValue(s)] : s \in Strings}
        \cup {[text |-> << >>, value |-> v] : v \in {Num, JsNull, Cyclic}}

PasswordInputs ==
    {[text |-> s, value |-> StringValue(s)] : s \in Strings}
        \cup {[text |-> << >>, value |-> v] : v \in {JsNull, JsUndefined}}

CalculateSize(key, input) ==
    /\ call' = [fn |-> "calculateSize", key |-> key, text |-> input.text,
                value |-> input.value, thrown |-> FALSE,
                result |-> calculateSize(key, input.value)]
    /\ UNCHANGED <<cfg, now, cache, accessOrder, timers, scheduled, stats, inflight,
                   useOrder>>

HashPassword(input) ==
    /\ LET r == hashPassword(input.value)
       IN call' = [fn |-> "hashPassword", key |-> "", text |-> input.text,
                   value |-> input.value, thrown |-> r.thrown, result |-> r.value]
    /\ UNCHANGED <<cfg, now, cache, accessOrder, timers, scheduled, stats, inflight,
                   useOrder>>

NextPure ==
    \/ \E key \in Keys, input \in SizeInputs : CalculateSize(key, input)
    \/ \E input \in PasswordInputs : HashPassword(input)

SpecPure == Init /\ [][NextPure]_vars

----------------------------------------------------------------------------
(* The cache with a wider range of arguments: a value that is null, and a   *)
(* ttl above the longest delay of a timer                                   *)

WideValues == {Str199, JsNull}
WideTTLArgs == {0, TimeoutMax + 1}

NextWide ==
    \/ Tick
    \/ \E key \in Keys, value \in WideValues, ttl \in WideTTLArgs : Set(key, value, ttl)
    \/ \E key \in Keys : Get(key)
    \/ \E key \in Keys : Has(key)
    \/ Cleanup
    \/ \E timer \in scheduled : TimerFire(timer)
    \/ \E key \in GetOrSetKeys, ttl \in OmittedTTL : GetOrSetCall(key, ttl)
    \/ \E i \in 1..Len(inflight), value \in WideValues : GetOrSetResolve(i, value)
    \/ \E i \in 1..Len(inflight) : GetOrSetReject(i)

SpecWide == InitDefaultTTL /\ [][NextWide]_vars

----------------------------------------------------------------------------
(* set executed statement by statement.  A call of set is a frame in `call`: *)
(* its arguments, the time it read, the statement it is at and the state it *)
(* started from.  The runtime has one thread: a call or a callback starts   *)
(* only when no call is running.                                            *)

SetPcs == <<"release", "evictMemory", "evictLRU", "store", "index", "count", "timer">>

LastPc == SetPcs[Len(SetPcs)]

NextPc(pc) == SetPcs[(CHOOSE i \in 1..Len(SetPcs) : SetPcs[i] = pc) + 1]

\* the statement of set at frame.pc, applied to S
setStep(S, c, frame) ==
    LET key == frame.key
        size == calculateSize(key, frame.value)
        expiresAt == expiresAtOf(c, frame.ttl, frame.t)
        entry == [value |-> frame.value, createdAt |-> frame.t, expiresAt |-> expiresAt,
                  lastAccessed |-> frame.t, accessCount |-> 0, size |-> size]
        timer == [key |-> key, ttl |-> actualTTL(c, frame.ttl),
                  due |-> frame.t + timeoutDelay(actualTTL(c, frame.ttl))]
    IN CASE frame.pc = "release" ->
              IF MapHas(S.cache, key) THEN delete(S, key, FALSE) ELSE S
         [] frame.pc = "evictMemory" ->
              IF S.stats.memoryUsage + size > c.maxMemory
              THEN evictMemory(S, size, c.maxMemory) ELSE S
         [] frame.pc = "evictLRU" ->
              IF Len(S.cache) >= c.maxSize THEN evictLRU(S) ELSE S
         [] frame.pc = "store" -> [S EXCEPT !.cache = MapSet(@, key, entry)]
         [] frame.pc = "index" -> [S EXCEPT !.accessOrder = MapSet(@, key, frame.t)]
         [] frame.pc = "count" ->
              [S EXCEPT !.stats = [@ EXCEPT !.memoryUsage = @ + size, !.sets = @ + 1]]
         [] frame.pc = "timer" ->
              IF expiresAt # NoExpiry
              THEN [S EXCEPT !.timers = MapSet(@, key, timer),
                             !.scheduled = @ \cup {timer}]
              ELSE S

\* no call is on the stack
Idle == call.fn = "none"

\* a callback that may run whatever the thread is doing
CallbackMayRun_anyTime == TRUE

\* the event loop runs a setTimeout or setInterval callback when the stack is empty
CallbackMayRun == call.fn = "none"

SetCall(key, value, ttl) ==
    /\ Idle
    /\ OpsUsed < MaxOps
    /\ call' = [fn |-> "set", key |-> key, value |-> value, ttl |-> ttl, t |-> now,
                pc |-> SetPcs[1], start |-> This]
    /\ UNCHANGED <<cfg, now, cache, accessOrder, timers, scheduled, stats, inflight,
                   useOrder>>

SetStep ==
    /\ call.fn = "set"
    /\ LET S == setStep(This, cfg, call)
           last == call.pc = LastPc
       IN /\ cache' = S.cache
          /\ accessOrder' = S.accessOrder
          /\ timers' = S.timers
          /\ scheduled' = S.scheduled
          /\ stats' = S.stats
          /\ useOrder' = IF last THEN Touch(useOrder, call.key, S) ELSE Restrict(useOrder, S)
          /\ call' = IF last THEN NoCall ELSE [call EXCEPT !.pc = NextPc(call.pc)]
    /\ UNCHANGED <<cfg, now, inflight>>

NextTasks ==
    \/ Idle /\ Tick
    \/ \E key \in Keys, value \in Values, ttl \in TTLArgs : SetCall(key, value, ttl)
    \/ SetStep
    \/ Idle /\ \E key \in Keys : Get(key)
    \/ Idle /\ \E key \in Keys : Has(key)
    \/ Idle /\ \E key \in Keys : Delete(key)
    \/ Idle /\ Clear
    \/ CallbackMayRun /\ \E timer \in scheduled : TimerFire(timer)
    \/ CallbackMayRun /\ Cleanup

SpecTasks == InitDefaultTTL /\ [][NextTasks]_vars

----------------------------------------------------------------------------
(* Properties *)

RECURSIVE SumSizes(_)
SumSizes(m) == IF m = << >> THEN 0 ELSE m[1].val.size + SumSizes(Tail(m))

Stored(k) == MapHas(cache, k)
EntryOf(k) == MapGet(cache, k)
\* the stored entry of k has a deadline that lies strictly before the current time
PastDeadline(k) ==
    Stored(k) /\ EntryOf(k).expiresAt # NoExpiry /\ EntryOf(k).expiresAt < now

\* C1: accounting invariant: in every state between operations (set, get, has,
\* delete, clear, getOrSet, preload, eviction, timer expiry, sweep),
\* stats.memoryUsage is exactly the sum of the size fields of the stored entries.
C1_Accounting == stats.memoryUsage = SumSizes(cache)

\* C1 witness: entries are stored after an eviction and a user delete took place.
C1_Witness ==
    /\ Len(cache) >= 1
    /\ stats.evictions >= 1
    /\ stats.deletes >= 1
    /\ stats.memoryUsage > 0

\* C2 (as claimed): immediately after every set returns, the number of stored
\* entries is at most maxSize, for every key, the empty string included.
C2_BoundAfterSet ==
    [][stats'.sets > stats.sets => Len(cache') <= cfg.maxSize]_vars

\* C3: the key set of accessOrder is exactly the key set of cache, and neither map
\* holds a key twice.
C3_IndexMatchesStore ==
    /\ MapKeys(accessOrder) = MapKeys(cache)
    /\ Len(accessOrder) = Len(cache)
    /\ Cardinality(MapKeys(cache)) = Len(cache)

\* C3 witness: two keys are stored and indexed after a get rewrote an index
\* entry and an eviction removed a key from both maps.
C3_Witness ==
    /\ Len(cache) = 2
    /\ Len(accessOrder) = 2
    /\ stats.hits >= 1
    /\ stats.evictions >= 1

\* C4: lazy expiry: whenever a stored entry's finite expiresAt is earlier than now
\* (its timer and the sweep have not run), get(k) returns null and removes it, and
\* has(k) returns false and removes it.
C4_LazyExpiry ==
    \A k \in Keys :
        PastDeadline(k) =>
            /\ getResult(This, k, now) = JsNull
            /\ hasResult(This, k, now) = JsFalse
            /\ ~MapHas(get(This, k, now).cache, k)
            /\ ~MapHas(has(This, k, now).cache, k)

\* C4 witness: an entry past its deadline is still stored with its timer pending.
C4_Witness ==
    \E k \in Keys :
        /\ PastDeadline(k)
        /\ MapHas(timers, k)
        /\ MapGet(timers, k) \in scheduled

\* C5 (as claimed): after every set returns, memoryUsage <= maxMemory, whatever
\* the size of the inserted entry.
C5_BoundedMemoryAlways ==
    [][stats'.sets > stats.sets => stats'.memoryUsage <= cfg.maxMemory]_vars

\* C5 (amended): from every reachable state and for every key, value and ttl,
\* after set returns either memoryUsage <= maxMemory, or the inserted entry alone
\* is larger than maxMemory and is then the only stored entry.
C5_BoundedMemory ==
    \A key \in Keys, value \in Values, ttl \in TTLArgs :
        LET S == set(This, cfg, key, value, ttl, now)
            size == calculateSize(key, value)
        IN IF size <= cfg.maxMemory
           THEN S.stats.memoryUsage <= cfg.maxMemory
           ELSE /\ MapKeys(S.cache) = {key}
                /\ S.stats.memoryUsage = size

\* C5 witness: an entry larger than maxMemory was set into a store that held
\* entries; they were evicted and it is stored alone, above the budget.
C5_Witness ==
    /\ Len(cache) = 1
    /\ cache[1].val.size > cfg.maxMemory
    /\ stats.memoryUsage > cfg.maxMemory
    /\ stats.evictions >= 1

\* C6: when a set would push memoryUsage above maxMemory and the new entry fits
\* maxMemory by itself, the set evicts entries, every evicted entry was accessed
\* no later than every entry that is kept, and memoryUsage <= maxMemory afterwards.
C6_MemoryEviction ==
    \A key \in Keys, value \in Values, ttl \in TTLArgs :
        LET S == set(This, cfg, key, value, ttl, now)
            size == calculateSize(key, value)
            released == IF Stored(key) THEN EntryOf(key).size ELSE 0
            others == MapKeys(cache) \ {key}
            evicted == others \ MapKeys(S.cache)
            kept == others \cap MapKeys(S.cache)
        IN (/\ stats.memoryUsage - released + size > cfg.maxMemory
            /\ size <= cfg.maxMemory)
           => /\ S.stats.memoryUsage <= cfg.maxMemory
              /\ evicted # {}
              /\ \A e \in evicted, r \in kept :
                    EntryOf(e).lastAccessed <= EntryOf(r).lastAccessed

\* C6 witness: maxMemory = 1000, entries of about 400 bytes: the third insertion
\* evicted the oldest one and left two entries within the budget.
C6_Witness ==
    /\ cfg.maxMemory = 1000
    /\ stats.sets = 3
    /\ stats.evictions = 1
    /\ Len(cache) = 2
    /\ \A i \in 1..2 : cache[i].val.value = Str199
    /\ stats.memoryUsage <= 1000

\* C7 (as claimed): with maxSize = 2, two stored keys and no memory pressure, a
\* set of a third key keeps the key that was set or read last and evicts the one
\* whose last access is earliest in operation order, whatever the clock shows.
C7_LRUCorrectness ==
    [][\A key \in Keys, value \in Values, ttl \in TTLArgs :
          (/\ Set(key, value, ttl)
           /\ cfg.maxSize = 2
           /\ Len(cache) = 2
           /\ Len(useOrder) = 2
           /\ ~Stored(key)
           /\ ~Stored("")
           /\ stats.memoryUsage + calculateSize(key, value) <= cfg.maxMemory)
          => MapKeys(cache') = {useOrder[2], key}]_vars

C9_TTLExpiry ==
    \A k \in Keys :
        PastDeadline(k) =>
            LET e == EntryOf(k)
                G == get(This, k, now)
                W == cleanup(This, now)
                Gone(R) == /\ ~MapHas(R.cache, k)
                           /\ getResult(R, k, now) = JsNull
                           /\ Len(R.cache) = Len(cache) - 1
                           /\ R.stats.memoryUsage = stats.memoryUsage - e.size
            IN /\ getResult(This, k, now) = JsNull
               /\ Gone(G)
               /\ MapHas(timers, k)
               /\ MapGet(timers, k) \in scheduled
               /\ MapGet(timers, k).due <= now
               /\ Gone(timerCallback(This, MapGet(timers, k)))
               /\ ~MapHas(W.cache, k)
               /\ (\A x \in Keys \ {k} : ~PastDeadline(x)) => Gone(W)

\* C9 witness: an entry set with ttl = 1 is past its deadline next to an entry
\* that is not, so that each removal path has exactly one entry to remove.
C9_Witness ==
    \E k \in Keys :
        /\ PastDeadline(k)
        /\ EntryOf(k).expiresAt = EntryOf(k).createdAt + 1
        /\ Len(cache) = 2
        /\ \A x \in Keys \ {k} : ~PastDeadline(x)

\* C10: clear() leaves memoryUsage = 0, no entry in the store or the index, no
\* timer handle and no pending timer, so that no deadline scheduled before the
\* clear can delete anything afterwards.
C10_ClearResets ==
    LET S == clear(This)
    IN /\ S.stats.memoryUsage = 0
       /\ Len(S.cache) = 0
       /\ Len(S.accessOrder) = 0
       /\ Len(S.timers) = 0
       /\ S.scheduled = {}

\* C10 witness: entries were set and nothing was deleted, evicted or could have
\* expired (now is still the time of construction), and the store is empty with
\* no pending timer: clear() has run.
C10_Witness ==
    /\ now = 1
    /\ stats.sets >= 2
    /\ stats.deletes = 0
    /\ stats.evictions = 0
    /\ Len(cache) = 0
    /\ stats.memoryUsage = 0
    /\ scheduled = {}

\* the counters of the statistics record, memoryUsage and startTime aside
Counters(st) == <<st.hits, st.misses, st.sets, st.deletes, st.evictions>>
\* the stored entry of k has no deadline or its deadline lies after the current time
Live(k) ==
    Stored(k) /\ (EntryOf(k).expiresAt = NoExpiry \/ now < EntryOf(k).expiresAt)

\* C11: stats.deletes grows by exactly one in a delete(key) made by a caller that
\* removes an entry, and by nothing else: a step that changes the counter is such
\* a delete, so a delete of a key that is not stored, a set (overwrite, memory
\* eviction and count eviction included), get and has (lazy expiry included), a
\* timer expiry, the sweep and clear all leave it as it is.
C11_DeletesCounter ==
    /\ [](\A k \in Keys :
             delete(This, k, TRUE).stats.deletes
                = stats.deletes + (IF Stored(k) THEN 1 ELSE 0))
    /\ [][stats'.deletes # stats.deletes
             => /\ stats'.deletes = stats.deletes + 1
                /\ \E k \in Keys : Stored(k) /\ Delete(k)]_vars

\* C11 witness: one user delete has been counted in a run in which entries were
\* also removed by eviction.
C11_Witness ==
    /\ stats.deletes = 1
    /\ stats.evictions >= 1
    /\ stats.sets >= 2

\* C12: delete(key) returns true exactly when key is stored, and the entry is then
\* gone from the store; when key is not stored it returns false and the store,
\* the index, the timers, memoryUsage and every counter are as before.
C12_DeleteResult ==
    \A k \in Keys :
        LET D == delete(This, k, TRUE)
        IN /\ deleteResult(This, k) = JsTrue <=> Stored(k)
           /\ deleteResult(This, k) \in {JsTrue, JsFalse}
           /\ Stored(k) => ~MapHas(D.cache, k)
           /\ ~Stored(k) => D = This

\* C12 witness: one key is stored with a pending timer while another key is not
\* stored, after a user delete has removed an entry.
C12_Witness ==
    /\ \E k \in Keys : Stored(k) /\ MapHas(timers, k)
    /\ \E k \in Keys : ~Stored(k)
    /\ stats.deletes >= 1
    /\ stats.memoryUsage > 0

\* C13: has(key) reports an entry present exactly when get(key) at the same
\* instant would be a hit; has changes no entry (lastAccessed, accessCount), no
\* time of the index and no counter: the store after has is the store before,
\* minus the entry of key when that entry is expired.
C13_HasFrame ==
    \A k \in Keys :
        LET H == has(This, k, now)
            expired == Stored(k) /\ EntryOf(k).expiresAt # NoExpiry
                                 /\ now > EntryOf(k).expiresAt
        IN /\ hasResult(This, k, now) = JsTrue
                <=> get(This, k, now).stats.hits = stats.hits + 1
           /\ hasResult(This, k, now) = JsFalse
                <=> get(This, k, now).stats.misses = stats.misses + 1
           /\ Counters(H.stats) = Counters(stats)
           /\ H.cache = SelectSeq(cache, LAMBDA e : ~(expired /\ e.key = k))
           /\ H.accessOrder = SelectSeq(accessOrder, LAMBDA e : ~(expired /\ e.key = k))

\* C13 witness: an expired entry and an entry that was read before are stored
\* side by side.
C13_Witness ==
    /\ \E k \in Keys : Stored(k) /\ EntryOf(k).expiresAt # NoExpiry
                                 /\ now > EntryOf(k).expiresAt
    /\ \E k \in Keys : Live(k) /\ EntryOf(k).accessCount >= 1

\* C14: get(key) on a live entry returns the stored value, which is the value of
\* the last set of the key (set stores its argument, and the value of a stored
\* key changes or appears only in a step that performs a set); accessCount and
\* hits grow by one, lastAccessed and the key's time in the index become now;
\* expiresAt, size, the other entries, memoryUsage, the number of entries and the
\* other counters stay as they are.
C14_GetHit ==
    /\ [](\A k \in Keys :
             Live(k) =>
                LET G == get(This, k, now)
                    e == EntryOf(k)
                IN /\ getResult(This, k, now) = e.value
                   /\ MapGet(G.cache, k) = [e EXCEPT !.accessCount = e.accessCount + 1,
                                                     !.lastAccessed = now]
                   /\ MapGet(G.accessOrder, k) = now
                   /\ G.stats = [stats EXCEPT !.hits = stats.hits + 1]
                   /\ Len(G.cache) = Len(cache)
                   /\ \A x \in Keys \ {k} :
                         Stored(x) => /\ MapHas(G.cache, x)
                                      /\ MapGet(G.cache, x) = EntryOf(x)
                                      /\ MapGet(G.accessOrder, x) = MapGet(accessOrder, x))
    /\ [](\A key \in Keys, value \in Values, ttl \in TTLArgs :
             LET S == set(This, cfg, key, value, ttl, now)
             IN /\ getResult(S, key, now) = value
                /\ \A x \in Keys \ {key} :
                      MapHas(S.cache, x) => MapGet(S.cache, x) = EntryOf(x))
    /\ [][\A k \in Keys :
             MapHas(cache', k)
                => \/ Stored(k) /\ MapGet(cache', k).value = EntryOf(k).value
                   \/ stats'.sets > stats.sets]_vars

\* C14 witness: an entry with a deadline was read at a later time than it was set.
C14_Witness ==
    \E k \in Keys :
        /\ Live(k)
        /\ EntryOf(k).expiresAt # NoExpiry
        /\ EntryOf(k).accessCount >= 1
        /\ EntryOf(k).lastAccessed > EntryOf(k).createdAt
        /\ MapGet(accessOrder, k) = EntryOf(k).lastAccessed
        /\ stats.hits >= 1


\* C15 (as claimed): a get(k) of a stored entry whose expiresAt is <= now, the
\* instant now = expiresAt included, returns null, removes the entry, adds one to
\* misses and leaves hits as it is.
C15_ExpiredAtDeadline ==
    [][\A k \in Keys :
          (/\ Get(k)
           /\ Stored(k)
           /\ EntryOf(k).expiresAt # NoExpiry
           /\ EntryOf(k).expiresAt <= now)
          => /\ getResult(This, k, now) = JsNull
             /\ ~MapHas(cache', k)
             /\ stats'.misses = stats.misses + 1
             /\ stats'.hits = stats.hits]_vars

\* C16: a set of a key that is stored releases the old entry before the eviction
\* checks: when the store without the old entry has room for the new one (memory
\* and count), nothing is evicted; and when nothing is evicted, memoryUsage after
\* is memoryUsage before - old size + new size, the stored keys are the same, and
\* the timer pending for the key is the one armed by this set and no other (none
\* when the new entry has no deadline, i.e. its effective ttl is negative).
C16_Overwrite ==
    \A key \in Keys, value \in Values, ttl \in TTLArgs :
        Stored(key) =>
            LET S == set(This, cfg, key, value, ttl, now)
                old == EntryOf(key)
                size == calculateSize(key, value)
                armed == [key |-> key, ttl |-> actualTTL(cfg, ttl),
                          due |-> now + actualTTL(cfg, ttl)]
                pending == {t \in S.scheduled : t.key = key}
            IN /\ (/\ stats.memoryUsage - old.size + size <= cfg.maxMemory
                   /\ Len(cache) - 1 < cfg.maxSize)
                  => S.stats.evictions = stats.evictions
               /\ S.stats.evictions = stats.evictions
                  => /\ S.stats.memoryUsage = stats.memoryUsage - old.size + size
                     /\ Len(S.cache) = Len(cache)
                     /\ MapKeys(S.cache) = MapKeys(cache)
                     /\ MapGet(S.cache, key).size = size
                     /\ IF actualTTL(cfg, ttl) > 0
                        THEN /\ pending = {armed}
                             /\ MapHas(S.timers, key)
                             /\ MapGet(S.timers, key) = armed
                             /\ MapGet(S.cache, key).expiresAt = armed.due
                        ELSE /\ pending = {}
                             /\ ~MapHas(S.timers, key)

\* C16 witness: maxMemory = 1000 and two entries of about 400 bytes are stored
\* after three sets and no removal by delete, eviction or expiry (now is still
\* the time of construction): one set overwrote a key, which fits the budget only
\* because the old 400 bytes were released first.
C16_Witness ==
    /\ cfg.maxMemory = 1000
    /\ now = 1
    /\ stats.sets = 3
    /\ stats.deletes = 0
    /\ stats.evictions = 0
    /\ Len(cache) = 2
    /\ stats.memoryUsage > 600
    /\ stats.memoryUsage <= 1000
    /\ \A i \in 1..2 : MapHas(timers, cache[i].key)
    /\ Cardinality(scheduled) = 2

\* C17 (as claimed): set arms an expiry (expiresAt = now + ttl and a timer due
\* then) exactly when the effective ttl, the argument when given and the
\* configured defaultTTL otherwise, is > 0; with defaultTTL: 0 an entry set
\* without a ttl argument has no expiresAt and no timer.
C17_ExpiryArmedIffPositiveTTL ==
    [][\A o \in EdgeOptions, key \in Keys, value \in Values, ttl \in TTLArgs :
          (cfg = Constructor(o) /\ Set(key, value, ttl))
          => LET effective == IF ttl # 0 THEN ttl ELSE o.defaultTTL
                 e == MapGet(cache', key)
                 pending == {t \in scheduled' : t.key = key}
             IN IF effective > 0
                THEN /\ e.expiresAt = now + effective
                     /\ pending = {[key |-> key, ttl |-> effective, due |-> now + effective]}
                ELSE /\ e.expiresAt = NoExpiry
                     /\ pending = {}]_vars

\* C18 (as claimed): no cache whose maxSize or maxMemory is not positive exists
\* to accept a set: construction with such a bound fails.
C18_NonPositiveBoundRejected ==
    [][stats'.sets > stats.sets => (cfg.maxSize > 0 /\ cfg.maxMemory > 0)]_vars

C23_SweepFrame ==
    LET W == cleanup(This, now)
        removed == SelectSeq(cache, LAMBDA e : ~MapHas(W.cache, e.key))
    IN /\ \A k \in Keys : PastDeadline(k) => ~MapHas(W.cache, k)
       /\ \A k \in Keys : Live(k) => MapHas(W.cache, k)
       /\ W.cache = SelectSeq(cache, LAMBDA e : MapHas(W.cache, e.key))
       /\ W.accessOrder = SelectSeq(accessOrder, LAMBDA e : MapHas(W.cache, e.key))
       /\ W.timers = SelectSeq(timers, LAMBDA e : MapHas(W.cache, e.key))
       /\ Counters(W.stats) = Counters(stats)
       /\ W.stats.memoryUsage = stats.memoryUsage - SumSizes(removed)

\* C23 witness: two entries past their deadline are stored next to an entry that
\* has no expiresAt.
C23_Witness ==
    /\ Cardinality({k \in Keys : PastDeadline(k)}) = 2
    /\ \E k \in Keys : Stored(k) /\ EntryOf(k).expiresAt = NoExpiry

\* C30: when the memory check of a set triggers (the old entry of the key, if
\* any, released first), with target = memoryUsage + new size - maxMemory, the
\* memory step evicts exactly the entries in front of which less than target
\* bytes stand in the order by ascending lastAccessed, ties in store order: the
\* shortest prefix whose sizes sum to >= target, or every entry when none does.
C30_MemoryVictims ==
    \A key \in Keys, value \in Values :
        LET S1 == IF Stored(key) THEN delete(This, key, FALSE) ELSE This
            size == calculateSize(key, value)
            target == S1.stats.memoryUsage + size - cfg.maxMemory
            M == evictMemory(S1, size, cfg.maxMemory)
            n == Len(S1.cache)
            Precedes(i, j) ==
                \/ S1.cache[i].val.lastAccessed < S1.cache[j].val.lastAccessed
                \/ /\ S1.cache[i].val.lastAccessed = S1.cache[j].val.lastAccessed
                   /\ i < j
            InFront(j) == SelectSeq([i \in 1..n |-> [key |-> i, val |-> S1.cache[i].val]],
                                    LAMBDA e : Precedes(e.key, j))
        IN target > 0 =>
              /\ \A j \in 1..n :
                    ~MapHas(M.cache, S1.cache[j].key) <=> SumSizes(InFront(j)) < target
              /\ M.stats.evictions - S1.stats.evictions = n - Len(M.cache)
              /\ M.cache = SelectSeq(S1.cache, LAMBDA e : MapHas(M.cache, e.key))

\* C30 witness: with maxMemory = 1300 two entries of about 400 bytes that were
\* last accessed in the same millisecond are stored at a time when a set of a
\* third such entry triggers the memory check: one victim is enough and the tie
\* is decided by store order.
C30_Witness ==
    /\ cfg.maxMemory = 1300
    /\ Len(cache) = 3
    /\ cache[1].val.lastAccessed = cache[2].val.lastAccessed
    /\ cache[1].val.size < 500
    /\ cache[2].val.size < 500
    /\ stats.memoryUsage + calculateSize("b", Str199) > cfg.maxMemory

\* C24 (as claimed): getStats().hitRate is the number hits / (hits + misses), the
\* number 0 when hits + misses = 0 and 0.5 after one hit and one miss.  A number
\* is written here as [type |-> "number", num, den].
C24_HitRateIsRatio ==
    LET r == getStats(This, cfg, now).hitRate
        lookups == stats.hits + stats.misses
    IN /\ r.type = "number"
       /\ lookups = 0 => r.num = 0
       /\ lookups > 0 => r.num * lookups = stats.hits * r.den
       /\ (stats.hits = 1 /\ stats.misses = 1) => 2 * r.num = r.den

\* C24 (amended): getStats().hitRate is a string, the percentage
\* 100 * hits / (hits + misses) written with two decimals and a '%' sign:
\* "0.00%" when hits + misses = 0, and "50.00%" after one hit and one miss.
C24_HitRateText ==
    LET r == getStats(This, cfg, now).hitRate
        lookups == stats.hits + stats.misses
        diff == r.hundredths * lookups - 10000 * stats.hits
    IN /\ r.type = "string"
       /\ r.suffix = "%"
       /\ lookups = 0 => r.hundredths = 0
       /\ lookups > 0 => /\ 2 * diff <= lookups
                         /\ -2 * diff <= lookups
       /\ (stats.hits = 1 /\ stats.misses = 1) => r.hundredths = 5000

\* C24 witness: on a cache that has seen one set, one get has hit and one get
\* has missed.
C24_Witness ==
    /\ stats.sets = 1
    /\ stats.hits = 1
    /\ stats.misses = 1
    /\ stats.deletes = 0

\* C25: export() returns one record per stored entry that has no expiresAt or
\* whose expiresAt is later than now, and none for any other key; each record
\* carries the entry's value, createdAt and expiresAt; export changes nothing
\* (store, index, timers, pending timers, memoryUsage, counters).
C25_Export ==
    LET R == exportResult(This, now)
        E == export(This, now)
    IN /\ \A k \in Keys :
             (\E i \in 1..Len(R) : R[i].key = k)
                <=> (Stored(k) /\ (EntryOf(k).expiresAt = NoExpiry
                                   \/ EntryOf(k).expiresAt > now))
       /\ \A i \in 1..Len(R) :
             /\ R[i].key \in Keys
             /\ R[i].val = [value |-> EntryOf(R[i].key).value,
                            createdAt |-> EntryOf(R[i].key).createdAt,
                            expiresAt |-> EntryOf(R[i].key).expiresAt]
       /\ \A i, j \in 1..Len(R) : R[i].key = R[j].key => i = j
       /\ E.cache = cache
       /\ E.accessOrder = accessOrder
       /\ E.timers = timers
       /\ E.scheduled = scheduled
       /\ E.stats = stats

\* C25 witness: the store holds an entry past its deadline that nothing has
\* removed yet, an entry whose deadline is the present instant and a live entry.
C25_Witness ==
    /\ \E k \in Keys : PastDeadline(k)
    /\ \E k \in Keys : Stored(k) /\ EntryOf(k).expiresAt = now
    /\ \E k \in Keys : Live(k)

\* the limits passed to getDetailedInfo and getTopEntries
Limits == 1..3

\* C26 (as claimed): getDetailedInfo(limit) returns at most limit entries, in
\* descending order of accessCount, each flagged expired exactly when it has an
\* expiresAt that lies before now, and getTopEntries(n) returns the keys of the
\* first n entries of the same ranking.
C26_DetailedInfoLimit ==
    \A limit \in Limits, n \in Limits :
        LET D == getDetailedInfo(This, cfg, limit, now).entries
            T == getTopEntries(This, n, now)
            all == getDetailedInfo(This, cfg, Len(cache), now).entries
        IN /\ Len(D) <= limit
           /\ \A i, j \in 1..Len(D) : i < j => D[i].accessCount >= D[j].accessCount
           /\ \A i \in 1..Len(D) : D[i].expired <=> PastDeadline(D[i].key)
           /\ Len(T) = (IF n < Len(cache) THEN n ELSE Len(cache))
           /\ \A i \in 1..Len(T) : i <= Len(all) /\ T[i].key = all[i].key

\* C28 (as claimed): every removal of an entry by eviction or by expiry logs an
\* event before the operation returns: the lazy check of get and of has and the
\* timer an expiry event for the key, the sweep a cleanup event that counts the
\* removals, a set that evicts an eviction event; and the last event of a set is
\* its set event, whose totalEntries and memoryUsage are those of the store then.
C28_EventsForRemovals ==
    /\ \A k \in Keys :
          LET G == get(This, k, now)
              H == has(This, k, now)
          IN /\ (Stored(k) /\ ~MapHas(G.cache, k))
                => \E i \in 1..Len(G.events) :
                      /\ G.events[i].msg = "Cache entry expired on access"
                      /\ G.events[i].key = k
             /\ (Stored(k) /\ ~MapHas(H.cache, k))
                => \E i \in 1..Len(H.events) : H.events[i].key = k
    /\ \A t \in scheduled :
          LET F == timerCallback(This, t)
          IN \E i \in 1..Len(F.events) :
                F.events[i].msg = "Cache entry expired" /\ F.events[i].key = t.key
    /\ LET W == cleanup(This, now)
       IN Len(W.cache) < Len(cache)
          => \E i \in 1..Len(W.events) :
                /\ W.events[i].msg = "Cache cleanup completed"
                /\ W.events[i].x = Len(cache) - Len(W.cache)
    /\ \A key \in Keys, value \in Values, ttl \in TTLArgs :
          LET S == set(This, cfg, key, value, ttl, now)
              last == S.events[Len(S.events)]
          IN /\ S.stats.evictions > stats.evictions
                => \E i \in 1..Len(S.events) :
                      S.events[i].msg \in {"LRU eviction", "Memory eviction completed"}
             /\ last.msg = "Cache entry set"
             /\ last.key = key
             /\ last.y = Len(S.cache)
             /\ last.z = S.stats.memoryUsage

\* C29: hashPassword throws for null, for undefined and for the empty string,
\* and returns a non-empty hash for a password that is not empty
C29_HashPasswordRejects ==
    call.fn = "hashPassword" =>
        LET empty == call.value.type = "string" /\ call.text = << >>
            valid == call.value.type = "string" /\ call.text # << >>
        IN /\ (call.value.type \in {"null", "undefined"} \/ empty) => call.thrown
           /\ valid => /\ ~call.thrown
                       /\ call.result.type = "string"
                       /\ call.result.len > 0

\* C27 as stated: the estimate is not negative, is key bytes + value bytes +
\* the overhead, and for strings does not decrease with `length`
C27_MonotoneInLength ==
    call.fn = "calculateSize" =>
        /\ call.result >= 0
        /\ call.result = KeyBytes(call.key) + ValueBytes(call.value) + MetadataOverhead
        /\ call.value.type = "string" =>
              \A t \in Strings :
                  JsLength(call.text) <= JsLength(t) =>
                      call.result <= calculateSize(call.key, StringValue(t))

\* C27 (amended): the estimate is not negative, is the key's bytes + the
\* value's bytes + 200 (a string's bytes being those of its UTF-8 encoding),
\* and for strings does not decrease with the number of UTF-8 bytes
C27_MonotoneInBytes ==
    call.fn = "calculateSize" =>
        /\ call.result >= 0
        /\ call.value.type = "string" =>
              /\ call.result = Len(call.key) + BlobSize(call.text) + 200
              /\ \A t \in Strings :
                     BlobSize(call.text) <= BlobSize(t) =>
                         call.result <= calculateSize(call.key, StringValue(t))
        /\ call.value.type = "cyclic" => call.result = Len(call.key) + 1024 + 200
        /\ call.value.type \in {"number", "null"} =>
              call.result = Len(call.key) + 64 + 200

\* a string with a character of more than one byte has been measured under a key
\* that is not empty
C27_Witness ==
    /\ call.fn = "calculateSize"
    /\ call.key # ""
    /\ call.value.type = "string"
    /\ BlobSize(call.text) > JsLength(call.text)
    /\ call.result > MetadataOverhead

\* the stored entry of k has a deadline and the current time has reached it
Overdue(k) ==
    Stored(k) /\ EntryOf(k).expiresAt # NoExpiry /\ EntryOf(k).expiresAt <= now

\* C22: with due timer callbacks run fairly (and the sweep running or not),
\* whenever entries are stored whose deadline has been reached, a state follows
\* in which none of them is in the store any more, whether or not a caller read
\* them, and in which memoryUsage is the sum of the sizes of the entries left
C22_EventuallyExpired ==
    (\E k \in Keys : Overdue(k))
        ~> (/\ \A k \in Keys : ~Overdue(k)
            /\ stats.memoryUsage = SumSizes(cache))

\* the deadline of the only entry ever stored has passed and the entry is gone,
\* with no miss, delete or eviction counted
C22_Witness ==
    /\ stats.sets = 1
    /\ cache = << >>
    /\ scheduled = {}
    /\ stats.memoryUsage = 0
    /\ Counters(stats) = <<0, 0, 1, 0, 0>>
    /\ now >= 2

\* the fields of the cache
TaskState(S) == <<S.cache, S.accessOrder, S.timers, S.scheduled, S.stats>>

setBeforeCountCheck(S, c, key, value) ==
    LET size == calculateSize(key, value)
        S1 == IF MapHas(S.cache, key) THEN delete(S, key, FALSE) ELSE S
    IN IF S1.stats.memoryUsage + size > c.maxMemory
       THEN evictMemory(S1, size, c.maxMemory) ELSE S1

\* the first key, in the iteration order of the index, whose entry has the least
\* lastAccessed of all entries of S
FirstOldest(S) ==
    LET least(i) == \A j \in 1..Len(S.accessOrder) :
                       MapGet(S.cache, S.accessOrder[i].key).lastAccessed
                           <= MapGet(S.cache, S.accessOrder[j].key).lastAccessed
        first == CHOOSE i \in 1..Len(S.accessOrder) :
                     least(i) /\ \A j \in 1..(i - 1) : ~least(j)
    IN S.accessOrder[first].key

\* C31: when the store holds maxSize entries or more after the memory step, set
\* evicts exactly one entry before it inserts, the first one with the least
\* lastAccessed, and counts it, whatever the keys are (the empty string included);
\* when it holds fewer, the count check evicts nothing
C31_CountCheck ==
    \A key \in Keys, value \in Values, ttl \in TTLArgs :
        LET S2 == setBeforeCountCheck(This, cfg, key, value)
            S == set(This, cfg, key, value, ttl, now)
            evicted == MapKeys(S2.cache) \ MapKeys(S.cache)
        IN IF Len(S2.cache) >= cfg.maxSize
           THEN /\ evicted = {FirstOldest(S2)}
                /\ S.stats.evictions = S2.stats.evictions + 1
           ELSE /\ evicted = {}
                /\ S.stats.evictions = S2.stats.evictions

\* C32: stats.evictions grows by one for each entry the eviction policy removes
\* and by nothing else.  A step that runs one set raises it by the number of keys
\* that leave the store in the step and leaves deletes as it is; a preload, which
\* runs several sets, raises it by at least that number (a later set may evict
\* and store again a key an earlier one found) and leaves deletes as it is; every
\* other step (get, has, delete, clear, a timer callback, the sweep, a failed
\* compute step) leaves evictions as it is.
C32_EvictionsCounter ==
    [][LET lost == MapKeys(cache) \ MapKeys(cache')
       IN IF stats'.sets = stats.sets + 1
          THEN /\ stats'.evictions = stats.evictions + Cardinality(lost)
               /\ stats'.deletes = stats.deletes
          ELSE IF stats'.sets > stats.sets
          THEN /\ stats'.evictions >= stats.evictions + Cardinality(lost)
               /\ stats'.deletes = stats.deletes
          ELSE stats'.evictions = stats.evictions]_vars

\* three sets evicted two entries (one memory eviction with two victims, or two
\* evictions of one), and a user delete removed a third entry
C32_Witness ==
    /\ stats.sets = 3
    /\ stats.evictions = 2
    /\ stats.deletes = 1
    /\ cache = << >>

\* C33: for every stored key the time recorded in accessOrder is the lastAccessed
\* of its entry, so the index sorted by time (the order of memory eviction) is in
\* ascending lastAccessed order, and the scan of evictLRU finds the first entry
\* with the least lastAccessed
C33_IndexTimeIsLastAccessed ==
    /\ \A k \in MapKeys(cache) :
          MapHas(accessOrder, k) /\ MapGet(accessOrder, k) = EntryOf(k).lastAccessed
    /\ LET sorted == SortByTime(accessOrder)
       IN \A i, j \in 1..Len(sorted) :
             i < j => EntryOf(sorted[i].key).lastAccessed
                          <= EntryOf(sorted[j].key).lastAccessed
    /\ Len(cache) > 0 =>
          accessOrder[OldestScan(accessOrder, 1, 0)].key = FirstOldest(This)

\* two entries are stored, and a get at a later time has moved the first one
\* behind the second in the order of eviction
C33_Witness ==
    /\ Len(cache) = 2
    /\ stats.hits >= 1
    /\ cache[1].val.lastAccessed > cache[1].val.createdAt
    /\ cache[1].val.lastAccessed > cache[2].val.lastAccessed

\* the stored keys whose entry has a deadline
Expiring == {k \in MapKeys(cache) : EntryOf(k).expiresAt # NoExpiry}

C35_NoPrematureExpiry ==
    [][\A k \in Keys :
          (Stored(k) /\ ~MapHas(cache', k) /\ stats'.sets = stats.sets)
          => /\ EntryOf(k).expiresAt # NoExpiry
             /\ EntryOf(k).expiresAt <= now]_vars

\* C37: getOrSet invokes its compute step only when the key has no live entry:
\* a call that suspends in the compute step found, in the state it was made in,
\* no entry whose deadline is still ahead, whatever the stored value
C37_ComputeOnlyWithoutLiveEntry ==
    [][Len(inflight') > Len(inflight) => ~Live(inflight'[Len(inflight')].key)]_vars

\* C36: at every instant, for every stored key, has(key) returns true and
\* get(key) is a hit exactly when export() holds the key: the read path and the
\* export draw the line between live and expired at the same instant, the
\* instant now = expiresAt included
C36_ReadPathAgreesWithExport ==
    LET R == exportResult(This, now)
    IN \A k \in MapKeys(cache) :
          LET exported == \E i \in 1..Len(R) : R[i].key = k
          IN /\ (hasResult(This, k, now) = JsTrue) <=> exported
             /\ (get(This, k, now).stats.hits = stats.hits + 1) <=> exported
             /\ (getResult(This, k, now) = EntryOf(k).value) <=> exported

\* C38: when set(k, v, ttl) returns, k is stored once, with value v, and a get(k)
\* at that instant returns v and leaves it stored: the eviction steps of the set
\* run before the insertion and never remove the entry being inserted, whatever
\* its size and however full the cache is
C38_InsertedEntryStays ==
    [](\A key \in Keys, value \in Values, ttl \in TTLArgs :
          LET S == set(This, cfg, key, value, ttl, now)
          IN /\ MapHas(S.cache, key)
             /\ Cardinality({i \in 1..Len(S.cache) : S.cache[i].key = key}) = 1
             /\ MapGet(S.cache, key).value = value
             /\ MapGet(S.cache, key).createdAt = now
             /\ getResult(S, key, now) = value
             /\ MapHas(get(S, key, now).cache, key))

\* an entry larger than maxMemory is the only one stored, after its set evicted
\* the two entries that filled the cache
C38_Witness ==
    /\ Len(cache) = 1
    /\ cache[1].val.size > cfg.maxMemory
    /\ stats.sets = 3
    /\ stats.evictions = 2

\* C39: a set of a key that is stored, while the store holds exactly maxSize
\* entries and the new entry fits the memory budget once the old one is released,
\* evicts nothing: the stored keys and stats.evictions are the same afterwards
C39_OverwriteAtCapacity ==
    [](\A key \in Keys, value \in Values, ttl \in TTLArgs :
          (/\ Stored(key)
           /\ Len(cache) = cfg.maxSize
           /\ stats.memoryUsage - EntryOf(key).size + calculateSize(key, value)
                  <= cfg.maxMemory)
          => LET S == set(This, cfg, key, value, ttl, now)
             IN /\ MapKeys(S.cache) = MapKeys(cache)
                /\ Len(S.cache) = Len(cache)
                /\ S.stats.evictions = stats.evictions)

\* the store holds maxSize entries after four sets, two of which overwrote a
\* stored key at a later time, and nothing was ever evicted or deleted
C39_Witness ==
    /\ Len(cache) = cfg.maxSize
    /\ stats.sets = 4
    /\ stats.evictions = 0
    /\ stats.deletes = 0
    /\ \A i \in 1..Len(cache) : cache[i].val.createdAt >= 2

\* C40: the entriesEvicted field of the 'Memory eviction completed' event is the
\* number of entries the evictMemory call deleted, i.e. the amount by which it
\* raised stats.evictions (the call is the one set makes for a key not stored)
C40_EntriesEvictedField ==
    \A key \in Keys, value \in Values :
        LET size == calculateSize(key, value)
            E == evictMemory(This, size, cfg.maxMemory)
            event == E.events[Len(E.events)]
        IN (~Stored(key) /\ stats.memoryUsage + size > cfg.maxMemory) =>
              /\ event.msg = "Memory eviction completed"
              /\ event.z = E.stats.evictions - stats.evictions

====
